---- MODULE Spec2Model ----
(***************************************************************************)
(* A model of the XFeat inference module (src/modules/xfeat.py).           *)
(*                                                                         *)
(* The XFeat object keeps one field that the operations read, top_k; no    *)
(* operation writes a field.  Every public operation is one action: it     *)
(* draws its inputs, runs the whole handler and leaves the inputs in arg   *)
(* and the returned value in ret.  pc names the operation that returned    *)
(* last ("idle" when none is pending).                                     *)
(*                                                                         *)
(* Tensors are functions on 0..n-1 (the code's indices are 0-based);       *)
(* variable-length results are sequences of such indices.                  *)
(***************************************************************************)
EXTENDS Integers, Sequences, FiniteSets, TLC

VARIABLES top_k, pc, arg, ret

vars == <<top_k, pc, arg, ret>>

(***************************************************************************)
(* Bounds of the model.                                                    *)
(***************************************************************************)
\* rows of a descriptor set handed to match / batch_match
MaxRows == 2
\* images of a batch handed to batch_match
MaxBatch == 2
\* descriptor rows in one batch_match call, over both sets and all images
MaxCells == 6
\* images of a batch handed to NMS, detectAndCompute and
\* detectAndComputeDense
MaxImages == 2
\* heatmap pixels above the lowest level, over all images of a batch
MaxLit == 2
\* largest top_k an XFeat object of the sparse pipeline is built with
MaxTopK == 2

(***************************************************************************)
(* Generic tensor helpers.                                                 *)
(***************************************************************************)
Size(t) == Cardinality(DOMAIN t)

NoArg == [op |-> "none"]
NoRet == [err |-> FALSE]
\* an exception that propagates out of the handler
Raised == [err |-> TRUE]

\* torch.arange(n)
arange(n) == [i \in 0..(n - 1) |-> i]

\* t[mask] for a 1-D tensor t of n entries: the entries whose mask is set,
\* in index order
RECURSIVE MaskSelectFrom(_, _, _, _)
MaskSelectFrom(t, mask, n, k) ==
    IF k >= n THEN <<>>
    ELSE (IF mask[k] THEN <<t[k]>> ELSE <<>>) \o MaskSelectFrom(t, mask, n, k + 1)

MaskSelect(t, mask, n) == MaskSelectFrom(t, mask, n, 0)

\* the tensor f on 0..n-1 and the list f on 1..n with every entry computed
\* once (the values are those of f)
RECURSIVE TensorFrom(_, _, _)
TensorFrom(f, lo, hi) ==
    IF lo > hi THEN <<>>
    ELSE IF lo = hi THEN (lo :> f[lo])
    ELSE TensorFrom(f, lo, (lo + hi) \div 2)
             @@ TensorFrom(f, (lo + hi) \div 2 + 1, hi)

Tensor(f, n) == TensorFrom(f, 0, n - 1)

RECURSIVE ListFrom(_, _, _)
ListFrom(f, lo, hi) ==
    IF lo > hi THEN <<>>
    ELSE IF lo = hi THEN <<f[lo]>>
    ELSE ListFrom(f, lo, (lo + hi) \div 2)
             \o ListFrom(f, (lo + hi) \div 2 + 1, hi)

List(f, n) == ListFrom(f, 1, n)

\* the tensors t on 0..n-1 with t[i] in sets[i] for every i
RECURSIVE ChoicesFrom(_, _, _)
ChoicesFrom(sets, n, i) ==
    IF i >= n THEN {<<>>}
    ELSE {(i :> e) @@ rest : e \in sets[i], rest \in ChoicesFrom(sets, n, i + 1)}

Choices(sets, n) == ChoicesFrom(sets, n, 0)

(***************************************************************************)
(* Matcher: descriptors and cosine similarity.                             *)
(*                                                                         *)
(* Descriptors are unit vectors, written with their components times 10,   *)
(* so a dot product is the cosine similarity times 100 and min_cossim is   *)
(* given in hundredths: -100 is match_xfeat's default -1, and 80 equals    *)
(* the similarity of <<10,0>> and <<8,6>>.                                 *)
(***************************************************************************)
Desc == {<<10, 0>>, <<8, 6>>, <<-8, 6>>}

Thresholds == {-100, 0, 60, 80}

Dot(u, v) == u[1] * v[1] + u[2] * v[2]

\* a @ b.t() for a of n rows and b of m rows
MatMulT(a, b, n, m) ==
    [i \in 0..(n - 1) |-> [j \in 0..(m - 1) |-> Dot(a[i], b[j])]]

\* index of the first maximal value of a row of n >= 1 entries
RECURSIVE ArgMaxFrom(_, _, _, _)
ArgMaxFrom(row, n, k, best) ==
    IF k >= n THEN best
    ELSE ArgMaxFrom(row, n, k + 1, IF row[k] > row[best] THEN k ELSE best)

argmax_first(row, n) == ArgMaxFrom(row, n, 1, 0)

\* a faulty argmax: the index of the first minimal value
argmin_first(row, n) ==
    CHOOSE k \in 0..(n - 1) :
        /\ \A l \in 0..(n - 1) : row[l] >= row[k]
        /\ \A l \in 0..(k - 1) : row[l] > row[k]

argmax(row, n) == argmax_first(row, n)

\* a faulty mutual: every row passes
mutual_none(match12, match21, n) == [i \in 0..(n - 1) |-> TRUE]

\* match: mutual = match21[match12] == idx0
mutual(match12, match21, n) ==
    [i \in 0..(n - 1) |-> match21[match12[i]] = i]

\* a faulty good: the mask negated
good_inverted(cossim_max, min_cossim, n) ==
    [i \in 0..(n - 1) |-> (min_cossim > 0) => ~(cossim_max[i] > min_cossim)]

\* match: good = cossim > min_cossim, applied only when min_cossim > 0
good(cossim_max, min_cossim, n) ==
    [i \in 0..(n - 1) |-> (min_cossim > 0) => (cossim_max[i] > min_cossim)]

match(feats1, feats2, min_cossim) ==
    LET N == Size(feats1)
        M == Size(feats2)
        cossim == MatMulT(feats1, feats2, N, M)
        cossim_t == MatMulT(feats2, feats1, M, N)
    IN  \* cossim.max(dim=1) reduces over M, cossim_t.max(dim=1) over N:
        \* torch raises on a reduction over a dimension of size 0
        IF M = 0 THEN Raised
        ELSE IF N = 0 THEN Raised
        ELSE
          LET match12 == [i \in 0..(N - 1) |-> argmax(cossim[i], M)]
              match21 == [j \in 0..(M - 1) |-> argmax(cossim_t[j], N)]
              idx0 == arange(N)
              mut == mutual(match12, match21, N)
              cossim_max == [i \in 0..(N - 1) |-> cossim[i][match12[i]]]
              gd == good(cossim_max, min_cossim, N)
              keep == [i \in 0..(N - 1) |-> mut[i] /\ gd[i]]
          IN  [err |-> FALSE,
               idx0 |-> MaskSelect(idx0, keep, N),
               idx1 |-> MaskSelect(match12, keep, N)]

(***************************************************************************)
(* batch_match: the same test on a batch, through bmm and a gather.        *)
(***************************************************************************)
\* torch.bmm(feats1, feats2.permute(0,2,1))
bmm(feats1, feats2, B, N, M) ==
    [b \in 0..(B - 1) |-> MatMulT(feats1[b], feats2[b], N, M)]

\* cossim.permute(0,2,1)
permute021(cossim, B, N, M) ==
    [b \in 0..(B - 1) |-> [j \in 0..(M - 1) |-> [i \in 0..(N - 1) |-> cossim[b][i][j]]]]

\* mutual = (match21.gather(1, match12) == indices)
batch_mutual(match12, match21, indices, B, N) ==
    [b \in 0..(B - 1) |-> [i \in 0..(N - 1) |-> match21[b][match12[b][i]] = indices[b][i]]]

\* the rows <<b, t[b][i]>> of the set entries of a B x N mask, in row-major
\* order: torch.cat([mutual.nonzero()[:, 0, None], t[mutual][:, None]], axis=1)
RECURSIVE BatchSelectFrom(_, _, _, _, _)
BatchSelectFrom(t, mask, B, N, b) ==
    IF b >= B THEN <<>>
    ELSE [p \in 1..Len(MaskSelect(t[b], mask[b], N)) |->
             <<b, MaskSelect(t[b], mask[b], N)[p]>>]
         \o BatchSelectFrom(t, mask, B, N, b + 1)

\* a faulty batch_select: every row carries batch index 0
batch_select_shared(t, mask, B, N) ==
    [p \in 1..Len(BatchSelectFrom(t, mask, B, N, 0)) |->
        <<0, BatchSelectFrom(t, mask, B, N, 0)[p][2]>>]

\* indices[mutual] with mutual.nonzero()[:, 0]: rows <<b, i>>
batch_select(t, mask, B, N) == BatchSelectFrom(t, mask, B, N, 0)

\* feats1 is B x N x 64, feats2 is B x M x 64
batch_match(feats1, feats2, B, N, M, min_cossim) ==
    LET cossim == bmm(feats1, feats2, B, N, M)
    IN  \* argmax over a dimension of size 0 raises
        IF M = 0 THEN Raised
        ELSE IF N = 0 THEN Raised
        ELSE
          LET match12 == [b \in 0..(B - 1) |->
                            [i \in 0..(N - 1) |-> argmax(cossim[b][i], M)]]
              cossim_p == permute021(cossim, B, N, M)
              match21 == [b \in 0..(B - 1) |->
                            [j \in 0..(M - 1) |-> argmax(cossim_p[b][j], N)]]
              indices == [b \in 0..(B - 1) |-> arange(N)]
              mut == batch_mutual(match12, match21, indices, B, N)
              cossim_max == [b \in 0..(B - 1) |->
                               [i \in 0..(N - 1) |-> cossim[b][i][match12[b][i]]]]
              keep == [b \in 0..(B - 1) |->
                         [i \in 0..(N - 1) |->
                            /\ mut[b][i]
                            /\ (min_cossim > 0) => (cossim_max[b][i] > min_cossim)]]
          IN  [err |-> FALSE,
               idx0_b |-> batch_select(indices, keep, B, N),
               idx1_b |-> batch_select(match12, keep, B, N)]

(***************************************************************************)
(* Actions of the matcher.                                                 *)
(***************************************************************************)
Do_match ==
    /\ pc = "idle"
    /\ \E N \in 0..MaxRows, M \in 0..MaxRows, t \in Thresholds :
         \E feats1 \in [0..(N - 1) -> Desc], feats2 \in [0..(M - 1) -> Desc] :
            /\ arg' = [op |-> "match", feats1 |-> feats1, feats2 |-> feats2,
                       min_cossim |-> t]
            /\ ret' = match(feats1, feats2, t)
    /\ pc' = "match"
    /\ UNCHANGED top_k

Do_batch_match ==
    /\ pc = "idle"
    /\ \E B \in 1..MaxBatch, N \in 0..MaxRows, M \in 0..MaxRows, t \in Thresholds :
         /\ B * (N + M) <= MaxCells
         /\ \E feats1 \in [0..(B - 1) -> [0..(N - 1) -> Desc]],
               feats2 \in [0..(B - 1) -> [0..(M - 1) -> Desc]] :
               /\ arg' = [op |-> "batch_match", feats1 |-> feats1,
                          feats2 |-> feats2, B |-> B, N |-> N, M |-> M,
                          min_cossim |-> t]
               /\ ret' = batch_match(feats1, feats2, B, N, M, t)
    /\ pc' = "batch_match"
    /\ UNCHANGED top_k

\* the handler has returned; the object is as it was
Return ==
    /\ pc # "idle"
    /\ pc' = "idle"
    /\ arg' = NoArg
    /\ ret' = NoRet
    /\ UNCHANGED top_k

\* XFeat.__init__: top_k defaults to 4096
InitDefault ==
    /\ top_k = 4096
    /\ pc = "idle"
    /\ arg = NoArg
    /\ ret = NoRet

NextMatch == Do_match \/ Do_batch_match \/ Return

SpecMatch == InitDefault /\ [][NextMatch]_vars

(***************************************************************************)
(* Properties of the matcher.                                              *)
(***************************************************************************)
\* j is the arg-max neighbour of descriptor u among the m rows of set:
\* no row is more similar, and no earlier row is as similar
IsArgMax(u, set, m, j) ==
    /\ j \in 0..(m - 1)
    /\ \A k \in 0..(m - 1) : Dot(u, set[k]) <= Dot(u, set[j])
    /\ \A k \in 0..(j - 1) : Dot(u, set[k]) < Dot(u, set[j])

Reciprocal(A, B, i, j) ==
    /\ i \in DOMAIN A
    /\ j \in DOMAIN B
    /\ IsArgMax(A[i], B, Size(B), j)
    /\ IsArgMax(B[j], A, Size(A), i)

MatchReturned == pc = "match" /\ ~ret.err
BatchReturned == pc = "batch_match" /\ ~ret.err

\* C1: every correspondence (i,j) returned by match, and every
\* ((b,i),(b,j)) returned by batch_match, is reciprocal: j is the arg-max
\* neighbour of row i of A among B, and i the arg-max neighbour of row j of
\* B among A.
C1_Reciprocity ==
    /\ MatchReturned =>
         /\ Len(ret.idx0) = Len(ret.idx1)
         /\ \A p \in 1..Len(ret.idx0) :
               Reciprocal(arg.feats1, arg.feats2, ret.idx0[p], ret.idx1[p])
    /\ BatchReturned =>
         /\ Len(ret.idx0_b) = Len(ret.idx1_b)
         /\ \A p \in 1..Len(ret.idx0_b) :
               /\ ret.idx0_b[p][1] \in 0..(arg.B - 1)
               /\ ret.idx1_b[p][1] = ret.idx0_b[p][1]
               /\ Reciprocal(arg.feats1[ret.idx0_b[p][1]],
                             arg.feats2[ret.idx0_b[p][1]],
                             ret.idx0_b[p][2], ret.idx1_b[p][2])

\* a match call that kept some rows and rejected others as not mutual
C1_Witness ==
    /\ MatchReturned
    /\ arg.min_cossim <= 0
    /\ Size(arg.feats1) = 2
    /\ Size(arg.feats2) = 2
    /\ Len(ret.idx0) = 1
    /\ ret.idx0[1] = 1

Pairs(r) == {<<r.idx0[p], r.idx1[p]>> : p \in 1..Len(r.idx0)}

\* C2: for fixed A and B, the correspondences returned under a threshold
\* are a superset of those returned under any higher threshold (and a
\* subset of those under any lower one), over negative, zero and positive
\* thresholds alike; the count never grows when min_cossim is raised.
C2_ThresholdMonotone ==
    MatchReturned =>
        \A t2 \in Thresholds :
            LET other == match(arg.feats1, arg.feats2, t2)
            IN  /\ (t2 >= arg.min_cossim) =>
                      /\ Pairs(other) \subseteq Pairs(ret)
                      /\ Len(other.idx0) <= Len(ret.idx0)
                /\ (t2 <= arg.min_cossim) =>
                      /\ Pairs(ret) \subseteq Pairs(other)
                      /\ Len(ret.idx0) <= Len(other.idx0)

\* a positive threshold that drops a pair which a lower positive one
\* keeps, and which itself keeps another
C2_Witness ==
    /\ MatchReturned
    /\ arg.min_cossim = 60
    /\ Len(ret.idx0) >= 1
    /\ Len(match(arg.feats1, arg.feats2, 80).idx0) >= 1
    /\ Len(match(arg.feats1, arg.feats2, 80).idx0) < Len(ret.idx0)

\* the mutual pairs whose similarity passes the threshold test
MutualAbove(A, B, t) ==
    {ij \in (DOMAIN A) \X (DOMAIN B) :
        /\ Reciprocal(A, B, ij[1], ij[2])
        /\ (t > 0) => (Dot(A[ij[1]], B[ij[2]]) > t)}

\* C5: match raises no error, and returns the empty correspondence set
\* whenever no pair is mutual and above the threshold, also when A or B
\* has no row.
C5_DegradeToEmpty ==
    pc = "match" =>
        /\ ~ret.err
        /\ (MutualAbove(arg.feats1, arg.feats2, arg.min_cossim) = {}) =>
              (ret.idx0 = <<>> /\ ret.idx1 = <<>>)

\* the second components of the rows of idx_b whose batch index is b
OfBatch(idx_b, b) ==
    LET InB(e) == e[1] = b
        rows == SelectSeq(idx_b, InB)
    IN  [p \in 1..Len(rows) |-> rows[p][2]]

\* C8: batch_match is match applied to each batch element: the rows it
\* returns with batch index b are match(feats1[b], feats2[b], min_cossim),
\* in the same order; both index arrays carry the same batch index at
\* every position; it raises exactly when match raises on its elements.
C8_BatchIsMatchPerElement ==
    pc = "batch_match" =>
        /\ \A b \in 0..(arg.B - 1) :
              LET one == match(arg.feats1[b], arg.feats2[b], arg.min_cossim)
              IN  /\ ret.err = one.err
                  /\ ~ret.err =>
                        /\ OfBatch(ret.idx0_b, b) = one.idx0
                        /\ OfBatch(ret.idx1_b, b) = one.idx1
        /\ ~ret.err =>
              /\ Len(ret.idx0_b) = Len(ret.idx1_b)
              /\ \A p \in 1..Len(ret.idx0_b) :
                    /\ ret.idx0_b[p][1] = ret.idx1_b[p][1]
                    /\ ret.idx0_b[p][1] \in 0..(arg.B - 1)

\* a batch of two whose elements match differently under a threshold
\* that filters
C8_Witness ==
    /\ BatchReturned
    /\ arg.B = 2
    /\ arg.min_cossim = 60
    /\ arg.N = 2
    /\ OfBatch(ret.idx0_b, 0) # OfBatch(ret.idx0_b, 1)
    /\ Len(OfBatch(ret.idx0_b, 0)) >= 1
    /\ Len(OfBatch(ret.idx0_b, 1)) >= 1

\* C10: correspondences are one-to-one: no left index and no right index
\* appears in two correspondences returned by match, nor, within one batch
\* element, in two returned by batch_match.
C10_OneToOne ==
    /\ MatchReturned =>
          \A p, q \in 1..Len(ret.idx0) :
              p # q => (ret.idx0[p] # ret.idx0[q] /\ ret.idx1[p] # ret.idx1[q])
    /\ BatchReturned =>
          \A p, q \in 1..Len(ret.idx0_b) :
              (p # q /\ ret.idx0_b[p][1] = ret.idx0_b[q][1]) =>
                  /\ ret.idx0_b[p][2] # ret.idx0_b[q][2]
                  /\ ret.idx1_b[p][2] # ret.idx1_b[q][2]

\* a batch of two: in one element every row has the same nearest
\* neighbour and only row 0 is kept; some correspondence pairs different
\* left and right indices
C10_Witness ==
    /\ BatchReturned
    /\ arg.B = 2
    /\ \E b \in 0..1 :
          /\ OfBatch(ret.idx0_b, b) = <<0>>
          /\ \A i \in 0..(arg.N - 1) :
                IsArgMax(arg.feats1[b][i], arg.feats2[b], arg.M, 0)
    /\ \E p \in 1..Len(ret.idx0_b) : ret.idx0_b[p][2] # ret.idx1_b[p][2]

(***************************************************************************)
(* Sparse pipeline: preprocess_tensor, NMS, detectAndCompute.              *)
(*                                                                         *)
(* A heatmap is a tensor x[b][row][col] of levels: level 0 stands for the  *)
(* values that do not exceed detectAndCompute's threshold 0.05, levels 1   *)
(* and 2 for two values above it.  NMS is modelled on the whole tensor it  *)
(* is given.  detectAndCompute's heatmap has the preprocessed image's      *)
(* size; the model holds its top-left Grid.H x Grid.W corner and takes     *)
(* every other pixel to be at level 0, which changes no window maximum of  *)
(* a pixel above the threshold.                                            *)
(***************************************************************************)
Grid == [H |-> 2, W |-> 3]

Levels == 1..2

\* the subsets of S of at most k elements
RECURSIVE SubsetsUpTo(_, _)
SubsetsUpTo(S, k) ==
    IF k = 0 THEN {{}}
    ELSE LET smaller == SubsetsUpTo(S, k - 1)
         IN  smaller \cup {T \cup {e} : T \in smaller, e \in S}

Slots(B) == (0..(B - 1)) \X (0..(Grid.H - 1)) \X (0..(Grid.W - 1))

\* the heatmap batch of B images whose pixels in lit are at the levels lv
\* and whose other pixels are at level 0
Heat(B, lit, lv) ==
    [b \in 0..(B - 1) |-> [r \in 0..(Grid.H - 1) |-> [c \in 0..(Grid.W - 1) |->
        IF <<b, r, c>> \in lit THEN lv[<<b, r, c>>] ELSE 0]]]

\* the choices of at most MaxLit pixels above level 0 in a batch of B images
LitSets(B) == SubsetsUpTo(Slots(B), MaxLit)

\* input sides (H or W) handed to preprocess_tensor
Sides == {1, 16, 31, 32, 33, 48, 63, 64, 65, 96, 100}

\* image sizes <<H, W>> handed to detectAndCompute
DacSizes == {<<64, 96>>, <<48, 80>>, <<16, 64>>}

SetMax(S) == CHOOSE m \in S : \A e \in S : e <= m

Min2(a, b) == IF a <= b THEN a ELSE b
Max2(a, b) == IF a >= b THEN a ELSE b

\* a faulty ratio: b/a
ratio_inverted(a, b) == <<b, a>>

\* a ratio a/b, kept as the pair of its terms
ratio(a, b) == <<a, b>>

\* x * r for an integer x and a ratio r
Scaled(x, r) == <<x * r[1], r[2]>>

\* (H//32) * 32
floor32(h) == (h \div 32) * 32

\* preprocess_tensor on an image of H x W pixels: the resized size and the
\* ratios rh, rw; H/_H raises ZeroDivisionError when _H is 0
preprocess_tensor(H, W) ==
    LET H_ == floor32(H)
        W_ == floor32(W)
    IN  IF H_ = 0 \/ W_ = 0 THEN Raised
        ELSE [err |-> FALSE, H_ |-> H_, W_ |-> W_,
              rh |-> ratio(H, H_), rw |-> ratio(W, W_)]

\* nn.MaxPool2d(kernel_size, stride=1, padding=pad): the maximum over the
\* window's pixels that lie inside the tensor (the padding is -inf)
local_max(x, H, W, pad) ==
    [r \in 0..(H - 1) |-> [c \in 0..(W - 1) |->
        SetMax({x[r2][c2] : r2 \in Max2(0, r - pad)..Min2(H - 1, r + pad),
                            c2 \in Max2(0, c - pad)..Min2(W - 1, c + pad)})]]

\* pos = (x == local_max) & (x > threshold)
is_pos(v, lmax, threshold) == v = lmax /\ v > threshold

\* a faulty flip: the index left as <<row, col>>
no_flip(rc) == rc

\* .flip(-1) of a <<row, col>> index
flip(rc) == <<rc[2], rc[1]>>

\* k.nonzero()[..., 1:].flip(-1): the set pixels in row-major order, each
\* as <<x, y>> = <<col, row>>
RECURSIVE NonzeroFrom(_, _, _, _)
NonzeroFrom(k, H, W, i) ==
    IF i >= H * W THEN <<>>
    ELSE (IF k[i \div W][i % W] THEN <<flip(<<i \div W, i % W>>)>> ELSE <<>>)
         \o NonzeroFrom(k, H, W, i + 1)

nonzero_flip(k, H, W) == NonzeroFrom(k, H, W, 0)

\* pos[b, :len(pos_batched[b]), :] = pos_batched[b] on a zero tensor
PadTo(seq, n) ==
    List([p \in 1..n |-> IF p <= Len(seq) THEN seq[p] ELSE <<0, 0>>], n)

\* NMS on a batch x of B heatmaps of H x W pixels: per image the candidate
\* list (positions 1..pad_val), padded with <<0, 0>>
NMS(x, B, H, W, threshold, kernel_size) ==
    LET pad == kernel_size \div 2
        pos == [b \in 0..(B - 1) |->
                  LET lmax == local_max(x[b], H, W, pad)
                  IN  [r \in 0..(H - 1) |-> [c \in 0..(W - 1) |->
                          is_pos(x[b][r][c], lmax[r][c], threshold)]]]
        pos_batched == Tensor([b \in 0..(B - 1) |-> nonzero_flip(pos[b], H, W)], B)
        pad_val == SetMax({Len(pos_batched[b]) : b \in 0..(B - 1)})
    IN  Tensor([b \in 0..(B - 1) |-> PadTo(pos_batched[b], pad_val)], B)

\* InterpolateSparse2d('nearest') at an integer pixel: the stored value
nearest(x, p) == x[p[2]][p[1]]

\* InterpolateSparse2d('bilinear') of the reliability map at a pixel: the
\* map is given by its sampled values
bilinear(rel, p) == rel[p]

\* the sampled reliability, as a function of the pixel <<x, y>>
RelMaps ==
    {[p \in (0..(Grid.W - 1)) \X (0..(Grid.H - 1)) |-> (p[1] + p[2] + 1) % 3]}

\* a faulty force_origin: the score left as it is
force_origin_never(p, score) == score

\* scores[torch.all(mkpts == 0, dim=-1)] = -1
force_origin(p, score) == IF p = <<0, 0>> THEN -1 ELSE score

\* the orders torch.argsort(-scores) may return: the permutations of
\* 0..n-1 along which the scores never increase (ties in any order)
argsort_desc(scores, n) ==
    {idxs \in Permutations(0..(n - 1)) :
        \A i, j \in 0..(n - 1) : i < j => scores[idxs[i] + 1] >= scores[idxs[j] + 1]}

\* torch.gather(t, -1, idxs)[:, :k] for one image
gather_top(t, idxs, n, k) ==
    List([p \in 1..Min2(n, k) |-> t[idxs[p - 1] + 1]], Min2(n, k))

\* t[valid] for parallel sequences
RECURSIVE ValidFrom(_, _, _)
ValidFrom(t, valid, p) ==
    IF p > Len(t) THEN <<>>
    ELSE (IF valid[p] THEN <<t[p]>> ELSE <<>>) \o ValidFrom(t, valid, p + 1)

\* valid = scores > 0
is_valid(score) == score > 0

\* scores = nearest(K1h, mkpts) * bilinear(H1, mkpts), with the <<0, 0>>
\* entries forced to -1
dac_scores(K1h, rel, B) ==
    LET mkpts == NMS(K1h, B, Grid.H, Grid.W, 0, 5)
        n == Len(mkpts[0])
    IN  Tensor([b \in 0..(B - 1) |-> List([p \in 1..n |->
            force_origin(mkpts[b][p],
                nearest(K1h[b], mkpts[b][p]) * bilinear(rel, mkpts[b][p]))], n)], B)

\* the values idxs = torch.argsort(-scores) may take, one order per image.
\* Orders that differ only in the places of entries equal in score and
\* coordinates gather the same tensors: one of them is taken.
dac_orders(K1h, rel, B) ==
    LET mkpts == NMS(K1h, B, Grid.H, Grid.W, 0, 5)
        n == Len(mkpts[0])
        scores == dac_scores(K1h, rel, B)
        orders == Tensor([b \in 0..(B - 1) |->
            {o \in argsort_desc(scores[b], n) :
                \A i, j \in 0..(n - 1) :
                    (/\ i < j
                     /\ scores[b][o[i] + 1] = scores[b][o[j] + 1]
                     /\ mkpts[b][o[i] + 1] = mkpts[b][o[j] + 1])
                    => o[i] < o[j]}], B)
    IN  Choices(orders, B)

\* detectAndCompute after the backbone: K1h is the heatmap, rel the sampled
\* reliability, idxs[b] the order argsort returned for image b.  A
\* descriptor is sampled at the kept keypoint before it is rescaled and is
\* written as that sampling position.
detectAndCompute(pre, K1h, rel, B, k, idxs) ==
    LET mkpts == NMS(K1h, B, Grid.H, Grid.W, 0, 5)
        n == Len(mkpts[0])
        scores == dac_scores(K1h, rel, B)
        kept == Tensor([b \in 0..(B - 1) |-> gather_top(mkpts[b], idxs[b], n, k)], B)
        kscores == Tensor([b \in 0..(B - 1) |-> gather_top(scores[b], idxs[b], n, k)], B)
        feats == kept
        pts == [b \in 0..(B - 1) |-> [p \in 1..Len(kept[b]) |->
                  <<Scaled(kept[b][p][1], pre.rw), Scaled(kept[b][p][2], pre.rh),
                    kscores[b][p]>>]]
        valid == [b \in 0..(B - 1) |-> [p \in 1..Len(kept[b]) |-> is_valid(kscores[b][p])]]
    IN  [err |-> FALSE,
         out |-> [b \in 0..(B - 1) |->
                    [keypoints |-> ValidFrom(pts[b], valid[b], 1),
                     descriptors |-> ValidFrom(feats[b], valid[b], 1)]]]

(***************************************************************************)
(* Actions of the sparse pipeline.                                         *)
(***************************************************************************)
Do_preprocess_tensor ==
    /\ pc = "idle"
    /\ \E H \in Sides, W \in Sides :
          /\ arg' = [op |-> "preprocess_tensor", H |-> H, W |-> W]
          /\ ret' = preprocess_tensor(H, W)
    /\ pc' = "preprocess_tensor"
    /\ UNCHANGED top_k

Do_NMS ==
    /\ pc = "idle"
    /\ \E B \in 1..MaxImages :
          \E lit \in LitSets(B) :
             \E lv \in [lit -> Levels], threshold \in {0, 1}, kernel_size \in {1, 3, 5} :
                /\ arg' = [op |-> "NMS", x |-> Heat(B, lit, lv), B |-> B,
                           H |-> Grid.H, W |-> Grid.W, threshold |-> threshold,
                           kernel_size |-> kernel_size]
                /\ ret' = [err |-> FALSE,
                           pos |-> NMS(Heat(B, lit, lv), B, Grid.H, Grid.W,
                                       threshold, kernel_size)]
    /\ pc' = "NMS"
    /\ UNCHANGED top_k

Do_detectAndCompute ==
    /\ pc = "idle"
    /\ \E size \in DacSizes :
          IF preprocess_tensor(size[1], size[2]).err
          THEN /\ arg' = [op |-> "detectAndCompute", H |-> size[1], W |-> size[2]]
               /\ ret' = Raised
          ELSE \E B \in 1..MaxImages, rel \in RelMaps :
                 \E lit \in LitSets(B) :
                    \E lv \in [lit -> Levels] :
                       \E idxs \in dac_orders(Heat(B, lit, lv), rel, B) :
                          /\ arg' = [op |-> "detectAndCompute", H |-> size[1],
                                     W |-> size[2], B |-> B,
                                     K1h |-> Heat(B, lit, lv), rel |-> rel]
                          /\ ret' = detectAndCompute(
                                        preprocess_tensor(size[1], size[2]),
                                        Heat(B, lit, lv), rel, B, top_k, idxs)
    /\ pc' = "detectAndCompute"
    /\ UNCHANGED top_k

\* XFeat(top_k = k)
InitSparse ==
    /\ top_k \in 1..MaxTopK
    /\ pc = "idle"
    /\ arg = NoArg
    /\ ret = NoRet

NextSparse == Do_detectAndCompute \/ Do_preprocess_tensor \/ Return

SpecSparse == InitSparse /\ [][NextSparse]_vars

\* NMS reads no field of the object
NextNMS == Do_NMS \/ Return

SpecNMS == InitDefault /\ [][NextNMS]_vars

(***************************************************************************)
(* Properties of the sparse pipeline.                                      *)
(***************************************************************************)
\* pixel (r, c) of the H x W heatmap x equals the maximum of its window of
\* radius pad and exceeds the threshold
IsPeak(x, H, W, r, c, threshold, pad) ==
    /\ x[r][c] > threshold
    /\ \A r2 \in 0..(H - 1), c2 \in 0..(W - 1) :
          (/\ r2 >= r - pad /\ r2 <= r + pad
           /\ c2 >= c - pad /\ c2 <= c + pad) => x[r2][c2] <= x[r][c]

\* the peaks, each as <<x, y>> = <<column, row>>
Peaks(x, H, W, threshold, pad) ==
    {xy \in (0..(W - 1)) \X (0..(H - 1)) :
        IsPeak(x, H, W, xy[2], xy[1], threshold, pad)}

\* <<x, y>> pixel p comes before pixel q in row-major order
RowMajorBefore(p, q) == p[2] < q[2] \/ (p[2] = q[2] /\ p[1] < q[1])

NmsPeaks(b) ==
    Peaks(arg.x[b], arg.H, arg.W, arg.threshold, arg.kernel_size \div 2)

\* C9: the row of NMS's output for image b is exactly the <<column, row>>
\* coordinates of the pixels that equal the maximum of their window and
\* exceed the threshold, in row-major order, followed only by <<0, 0>>
\* entries up to the largest candidate count of the batch; NMS run again on
\* the same input returns the same output.
C9_NMSCandidates ==
    pc = "NMS" =>
        LET most == SetMax({Cardinality(NmsPeaks(b)) : b \in 0..(arg.B - 1)})
        IN  /\ \A b \in 0..(arg.B - 1) :
                  LET row == ret.pos[b]
                      count == Cardinality(NmsPeaks(b))
                  IN  /\ Len(row) = most
                      /\ \A p \in 1..most :
                            IF p <= count THEN row[p] \in NmsPeaks(b)
                            ELSE row[p] = <<0, 0>>
                      /\ \A p, q \in 1..count :
                            p < q => RowMajorBefore(row[p], row[q])
            /\ ret.pos = NMS(arg.x, arg.B, arg.H, arg.W, arg.threshold,
                             arg.kernel_size)

\* a batch of two: one image has two candidates in different rows and
\* columns, the other has none, so its row is padding only
C9_Witness ==
    /\ pc = "NMS"
    /\ arg.B = 2
    /\ arg.kernel_size = 3
    /\ Cardinality(NmsPeaks(0)) = 2
    /\ Cardinality(NmsPeaks(1)) = 0
    /\ ret.pos[1] = <<<<0, 0>>, <<0, 0>>>>
    /\ ret.pos[0][1][1] > ret.pos[0][2][1]
    /\ ret.pos[0][1][2] < ret.pos[0][2][2]

DacReturned == pc = "detectAndCompute" /\ ~ret.err

\* the NMS candidates of image b under detectAndCompute's parameters
\* (threshold 0.05, kernel 5) and the score each ends with
DacCands(b) == Peaks(arg.K1h[b], Grid.H, Grid.W, 0, 2)

DacScore(b, xy) ==
    IF xy = <<0, 0>> THEN -1 ELSE arg.K1h[b][xy[2]][xy[1]] * arg.rel[xy]

\* C3: per image, the entries detectAndCompute returns are ordered by
\* non-increasing score, number at most top_k, all have score > 0, none is
\* a <<0, 0>> slot (a candidate at <<0, 0>>, padding or not, ends with
\* score -1), and every candidate with positive score that fewer than
\* top_k other candidates equal or beat is returned.
C3_OutputFiltering ==
    DacReturned =>
        \A b \in 0..(arg.B - 1) :
            LET kp == ret.out[b].keypoints
                at == ret.out[b].descriptors
            IN  /\ Len(kp) <= top_k
                /\ Len(at) = Len(kp)
                /\ \A p \in 1..Len(kp) :
                      /\ kp[p][3] > 0
                      /\ at[p] # <<0, 0>>
                      /\ ~(kp[p][1][1] = 0 /\ kp[p][2][1] = 0)
                /\ \A p, q \in 1..Len(kp) : p < q => kp[p][3] >= kp[q][3]
                /\ \A c \in DacCands(b) :
                      (/\ DacScore(b, c) > 0
                       /\ Cardinality({d \in DacCands(b) \ {c} :
                                          DacScore(b, d) >= DacScore(b, c)}) < top_k)
                      => \E p \in 1..Len(kp) :
                            at[p] = c /\ kp[p][3] = DacScore(b, c)

\* a batch of two: one image has a detection at the origin whose sampled
\* score is positive and another detection, which alone is returned; the
\* other image has no detection and its padded slots are dropped
C3_Witness ==
    /\ DacReturned
    /\ arg.B = 2
    /\ \E b \in 0..1 :
          /\ <<0, 0>> \in DacCands(b)
          /\ arg.K1h[b][0][0] * arg.rel[<<0, 0>>] > 0
          /\ Cardinality(DacCands(b)) = 2
          /\ Len(ret.out[b].keypoints) = 1
          /\ DacCands(1 - b) = {}
          /\ ret.out[1 - b].keypoints = <<>>

\* the value of a ratio-scaled coordinate f equals the integer n
RatioIs(f, n) == f[2] > 0 /\ f[1] = n * f[2]

PreprocessShape ==
    /\ ~ret.err
    /\ ret.H_ > 0 /\ ret.H_ % 32 = 0
    /\ ret.W_ > 0 /\ ret.W_ % 32 = 0
    /\ ret.rh = <<arg.H, ret.H_>>
    /\ ret.rw = <<arg.W, ret.W_>>
    /\ (arg.H % 32 = 0 /\ arg.W % 32 = 0) =>
          /\ ret.H_ = arg.H /\ ret.W_ = arg.W
          /\ RatioIs(ret.rh, 1) /\ RatioIs(ret.rw, 1)

KeypointsUnscaled ==
    (DacReturned /\ arg.H % 32 = 0 /\ arg.W % 32 = 0) =>
        \A b \in 0..(arg.B - 1) :
            \A p \in 1..Len(ret.out[b].keypoints) :
                /\ RatioIs(ret.out[b].keypoints[p][1], ret.out[b].descriptors[p][1])
                /\ RatioIs(ret.out[b].keypoints[p][2], ret.out[b].descriptors[p][2])

MaxDenseTopK == 10

DenseTopKs == (1..MaxDenseTopK) \cup {100}

\* image sizes <<H, W>>; 0.6 * 40 = 24 falls below 32
DenseSizes == {<<40, 64>>, <<64, 64>>, <<64, 128>>, <<96, 64>>}

\* reliability maps: cell i of n has reliability (i + shift) % n read
\* forwards (dir = 1) or backwards (dir = -1), so no two cells tie
Reliabilities == {<<1, 0>>, <<-1, 3>>, <<1, 5>>}

reliability(r, n) ==
    Tensor([i \in 0..(n - 1) |->
               IF r[1] = 1 THEN (i + r[2]) % n ELSE (n - 1 - i + r[2]) % n], n)

\* the scale factors as ratios
s1 == <<6, 10>>
s2 == <<13, 10>>

\* F.interpolate with a scale factor: the side becomes floor(side * s).
\* The doubles 0.6 and 1.3 differ from 6/10 and 13/10 by less than the
\* products' rounding, so the floor is that of the exact product.
interpolate(side, s) == (side * s[1]) \div s[2]

\* int(top_k * 0.20) and int(top_k * 0.80), which truncate
share_s1(k) == (k * 2) \div 10
share_s2(k) == (k * 8) \div 10

\* the number of coarse cells of an H x W image after preprocessing
coarse(H, W) == [H1 |-> floor32(H) \div 8, W1 |-> floor32(W) \div 8]

\* torch.topk: the indices of the k largest values, largest first (of two
\* equal values the one of lower index first)
topk(v, n, k) ==
    LET rank == Tensor([i \in 0..(n - 1) |->
                           Cardinality({m \in 0..(n - 1) :
                               v[m] > v[i] \/ (v[m] = v[i] /\ m < i)})], n)
    IN  List([j \in 1..k |-> CHOOSE i \in 0..(n - 1) : rank[i] = j - 1], k)

\* create_xy: cell i of a grid w wide is <<x, y>> = <<i % w, i \div w>>
create_xy(i, w) == <<i % w, i \div w>>

\* extractDense on B images of H x W whose reliability maps are rel[b]
extractDense(H, W, B, rel, k) ==
    LET pre == preprocess_tensor(H, W)
    IN  IF pre.err THEN Raised
        ELSE LET c == coarse(H, W)
                 n == c.H1 * c.W1
                 kk == Min2(n, k)
                 idx == Tensor([b \in 0..(B - 1) |->
                                   topk(reliability(rel[b], n), n, kk)], B)
             IN  [err |-> FALSE,
                  mkpts |-> Tensor([b \in 0..(B - 1) |->
                      List([j \in 1..kk |->
                          <<Scaled(8 * create_xy(idx[b][j], c.W1)[1], pre.rw),
                            Scaled(8 * create_xy(idx[b][j], c.W1)[2], pre.rh)>>],
                           kk)], B),
                  feats |-> idx]

\* a ratio-scaled coordinate divided by the scale factor s
Unscale(f, s) == <<f[1] * s[2], f[2] * s[1]>>

extract_dualscale(H, W, B, rel, k) ==
    LET e1 == extractDense(interpolate(H, s1), interpolate(W, s1), B, rel,
                           share_s1(k))
        e2 == extractDense(interpolate(H, s2), interpolate(W, s2), B, rel,
                           share_s2(k))
    IN  IF e1.err THEN Raised
        ELSE IF e2.err THEN Raised
        ELSE [err |-> FALSE,
              mkpts |-> Tensor([b \in 0..(B - 1) |->
                  List([j \in 1..Len(e1.mkpts[b]) |->
                          <<Unscale(e1.mkpts[b][j][1], s1),
                            Unscale(e1.mkpts[b][j][2], s1)>>],
                       Len(e1.mkpts[b]))
                  \o List([j \in 1..Len(e2.mkpts[b]) |->
                          <<Unscale(e2.mkpts[b][j][1], s2),
                            Unscale(e2.mkpts[b][j][2], s2)>>],
                       Len(e2.mkpts[b]))], B),
              sc |-> Tensor([b \in 0..(B - 1) |->
                  List([j \in 1..Len(e1.mkpts[b]) |-> <<s1[2], s1[1]>>],
                       Len(e1.mkpts[b]))
                  \o List([j \in 1..Len(e2.mkpts[b]) |-> <<s2[2], s2[1]>>],
                       Len(e2.mkpts[b]))], B),
              feats |-> Tensor([b \in 0..(B - 1) |->
                  e1.feats[b] \o e2.feats[b]], B)]

detectAndComputeDense(H, W, B, rel, k, multiscale) ==
    IF multiscale
    THEN LET d == extract_dualscale(H, W, B, rel, k)
         IN  IF d.err THEN Raised
             ELSE [err |-> FALSE, keypoints |-> d.mkpts,
                   descriptors |-> d.feats, scales |-> d.sc]
    ELSE LET e == extractDense(H, W, B, rel, k)
         IN  IF e.err THEN Raised
             ELSE [err |-> FALSE, keypoints |-> e.mkpts,
                   descriptors |-> e.feats,
                   scales |-> Tensor([b \in 0..(B - 1) |->
                       List([j \in 1..Len(e.mkpts[b]) |-> <<1, 1>>],
                            Len(e.mkpts[b]))], B)]

Do_detectAndComputeDense ==
    /\ pc = "idle"
    /\ \E size \in DenseSizes, B \in 1..MaxImages, multiscale \in BOOLEAN :
          \E rel \in [0..(B - 1) -> Reliabilities] :
             /\ arg' = [op |-> "detectAndComputeDense", H |-> size[1],
                        W |-> size[2], B |-> B, rel |-> rel,
                        multiscale |-> multiscale]
             /\ ret' = detectAndComputeDense(size[1], size[2], B, rel, top_k,
                                             multiscale)
    /\ pc' = "detectAndComputeDense"
    /\ UNCHANGED top_k

InitDense ==
    /\ top_k \in DenseTopKs
    /\ pc = "idle"
    /\ arg = NoArg
    /\ ret = NoRet

NextDense == Do_detectAndComputeDense \/ Return

SpecDense == InitDense /\ [][NextDense]_vars

\* the cells of the image resized by s, and whether each resized image has
\* at least as many cells as its share of top_k
CellsAt(s) ==
    coarse(interpolate(arg.H, s), interpolate(arg.W, s)).H1
        * coarse(interpolate(arg.H, s), interpolate(arg.W, s)).W1

EnoughCells == 5 * CellsAt(s1) >= top_k /\ 5 * CellsAt(s2) >= 4 * top_k

DualscaleReturned ==
    pc = "detectAndComputeDense" /\ arg.multiscale /\ ~ret.err

\* the number of entries of the list sc that carry the tag
Tagged(sc, tag) == Cardinality({j \in 1..Len(sc) : sc[j] = tag})

\* C4: for every positive top_k, when each rescaled image has at least as
\* many coarse cells as its share, the dual-scale extraction returns per
\* image exactly top_k / 5 features tagged 1/s1 followed by exactly
\* 4 * top_k / 5 features tagged 1/s2: the counts sum to top_k and every
\* feature carries one of the two tags.
C4_DualScaleSplitExact ==
    (DualscaleReturned /\ EnoughCells) =>
        \A b \in 0..(arg.B - 1) :
            LET sc == ret.scales[b]
            IN  /\ 5 * Tagged(sc, <<10, 6>>) = top_k
                /\ 5 * Tagged(sc, <<10, 13>>) = 4 * top_k
                /\ Len(sc) = top_k
                /\ Len(ret.keypoints[b]) = top_k
                /\ \A j \in 1..Len(sc) : sc[j] \in {<<10, 6>>, <<10, 13>>}
                /\ \A i, j \in 1..Len(sc) :
                      (sc[i] = <<10, 6>> /\ sc[j] = <<10, 13>>) => i < j

(***************************************************************************)
(* Refinement: subpix_softmax2d and refine_matches.  The fine matcher is   *)
(* the network's; it maps the concatenated descriptors of a correspondence *)
(* to 64 offset logits and is an input here.  A logit is written as a      *)
(* level n standing for n * ln(2) / 3, so that exp(3 * logit) = 2^n and    *)
(* every softmax probability is a ratio of integers.                       *)
(***************************************************************************)
\* the batch sizes, and the indices of the keypoints of an image on either
\* side
RefineBatches == {1, 2}
RefineKpts == 0..1

\* the logit maps the fine matcher may return, as levels per cell of the
\* flattened 8 x 8 grid: all equal; one cell 5 levels above the rest; one
\* cell at level 5, 33 at level 1 and 30 at level 0, whose largest
\* probability is 32 / 128
Logits(name) ==
    CASE name = "uniform" -> [c \in 0..63 |-> 0]
      [] name = "peak"    -> [c \in 0..63 |-> IF c = 51 THEN 5 ELSE 0]
      [] name = "quarter" -> [c \in 0..63 |-> IF c = 10 THEN 5
                                               ELSE IF c < 34 THEN 1 ELSE 0]

LogitNames == {"uniform", "peak", "quarter"}

\* the thresholds 1/64 and 0.25 as ratios
FineConfs == {<<1, 64>>, <<1, 4>>}

\* exp(temp * logit) for temp = 3
exp3(level) == 2 ^ level

RECURSIVE SumRange(_, _, _)
SumRange(f, lo, hi) ==
    IF lo > hi THEN 0
    ELSE IF lo = hi THEN f[lo]
    ELSE SumRange(f, lo, (lo + hi) \div 2)
             + SumRange(f, (lo + hi) \div 2 + 1, hi)

\* F.softmax(offsets * 3, dim = -1).max(dim = -1)[0] as a ratio
softmax_max(levels) ==
    <<SetMax({exp3(levels[c]) : c \in 0..63}),
      SumRange([c \in 0..63 |-> exp3(levels[c])], 0, 63)>>

\* subpix_softmax2d of one 8 x 8 map: the first coordinate weighs the row
\* index less W // 2, the second the column index less H // 2
subpix_softmax2d(levels) ==
    LET Z == SumRange([c \in 0..63 |-> exp3(levels[c])], 0, 63)
    IN  <<<<SumRange([c \in 0..63 |-> ((c \div 8) - 4) * exp3(levels[c])], 0, 63), Z>>,
          <<SumRange([c \in 0..63 |-> ((c % 8) - 4) * exp3(levels[c])], 0, 63), Z>>>>

\* a faulty above: conf >= fine_conf
at_least(conf, fine_conf) ==
    conf[1] * fine_conf[2] >= fine_conf[1] * conf[2]

\* conf > fine_conf on ratios with positive denominators
above(conf, fine_conf) ==
    conf[1] * fine_conf[2] > fine_conf[1] * conf[2]

\* x + off * sc for an integer x and ratios off and sc
AddScaled(x, off, sc) == <<x * off[2] * sc[2] + off[1] * sc[1], off[2] * sc[2]>>

\* d0 and d1 are the dense outputs of the two sides, idx0_b and idx1_b the
\* <<batch, index>> rows of the coarse correspondences
refine_matches(d0, d1, idx0_b, idx1_b, fine_matcher, fine_conf) ==
    LET n == Len(idx0_b)
    IN  \* view(-1, 8, 8) of a tensor without elements raises
        IF n = 0 THEN Raised
        ELSE
          LET feats1 == [p \in 0..(n - 1) |->
                            d0.descriptors[idx0_b[p + 1][1]][idx0_b[p + 1][2]]]
              feats2 == [p \in 0..(n - 1) |->
                            d1.descriptors[idx1_b[p + 1][1]][idx1_b[p + 1][2]]]
              mkpts_0 == [p \in 0..(n - 1) |->
                            d0.keypoints[idx0_b[p + 1][1]][idx0_b[p + 1][2]]]
              mkpts_1 == [p \in 0..(n - 1) |->
                            d1.keypoints[idx1_b[p + 1][1]][idx1_b[p + 1][2]]]
              sc0 == [p \in 0..(n - 1) |->
                            d0.scales[idx0_b[p + 1][1]][idx0_b[p + 1][2]]]
              offsets == Tensor([p \in 0..(n - 1) |->
                            Logits(fine_matcher[<<feats1[p], feats2[p]>>])], n)
              conf == Tensor([p \in 0..(n - 1) |-> softmax_max(offsets[p])], n)
              coords == Tensor([p \in 0..(n - 1) |->
                            subpix_softmax2d(offsets[p])], n)
              mask_good == [p \in 0..(n - 1) |-> above(conf[p], fine_conf)]
              match_mkpts == [p \in 0..(n - 1) |->
                  <<AddScaled(mkpts_0[p][1], coords[p][1], sc0[p]),
                    AddScaled(mkpts_0[p][2], coords[p][2], sc0[p]),
                    mkpts_1[p][1], mkpts_1[p][2]>>]
          IN  [err |-> FALSE,
               match_mkpts |-> MaskSelect(match_mkpts, mask_good, n),
               batch_index |-> MaskSelect([p \in 0..(n - 1) |-> idx0_b[p + 1][1]],
                                          mask_good, n)]

\* the dense outputs the refinement reads: side 0 or 1, B images of two
\* keypoints, the first at scale 1/s1 and the second at 1/s2
Dense(side, B) ==
    [keypoints |-> Tensor([b \in 0..(B - 1) |->
         Tensor([i \in RefineKpts |->
             IF side = 0 THEN <<16 * i + 8, 8 * b + 8>>
                         ELSE <<8 * i, 24 - 8 * b>>], Cardinality(RefineKpts))], B),
     descriptors |-> Tensor([b \in 0..(B - 1) |->
         Tensor([i \in RefineKpts |-> <<side, b, i>>], Cardinality(RefineKpts))], B),
     scales |-> Tensor([b \in 0..(B - 1) |->
         Tensor([i \in RefineKpts |->
             IF i = 0 THEN <<s1[2], s1[1]>> ELSE <<s2[2], s2[1]>>], Cardinality(RefineKpts))], B)]

\* the coarse correspondences of one image that batch_match can return:
\* one-to-one pairs <<i, j>> in the order of i
Matchings ==
    {<<>>}
    \cup {<<ij>> : ij \in RefineKpts \X RefineKpts}
    \cup {<<<<0, j>>, <<1, 1 - j>>>> : j \in 0..1}

RECURSIVE RowsFrom(_, _, _, _)
RowsFrom(m, side, B, b) ==
    IF b >= B THEN <<>>
    ELSE [p \in 1..Len(m[b]) |-> <<b, m[b][p][side]>>] \o RowsFrom(m, side, B, b + 1)

\* the rows idx0_b (side 1) or idx1_b (side 2) of the matchings m
Rows(m, side, B) == RowsFrom(m, side, B, 0)

\* the concatenated descriptors the fine matcher is applied to
FinePairs(m, B) ==
    UNION {{<<<<0, b, m[b][p][1]>>, <<1, b, m[b][p][2]>>>> : p \in 1..Len(m[b])} :
              b \in 0..(B - 1)}

Do_refine_matches ==
    /\ pc = "idle"
    /\ \E B \in RefineBatches, fine_conf \in FineConfs :
          \E m \in [0..(B - 1) -> Matchings] :
             \E fine_matcher \in [FinePairs(m, B) -> LogitNames] :
                /\ arg' = [op |-> "refine_matches", B |-> B,
                           idx0_b |-> Rows(m, 1, B), idx1_b |-> Rows(m, 2, B),
                           fine_matcher |-> fine_matcher,
                           fine_conf |-> fine_conf]
                /\ ret' = refine_matches(Dense(0, B), Dense(1, B), Rows(m, 1, B),
                                         Rows(m, 2, B), fine_matcher, fine_conf)
    /\ pc' = "refine_matches"
    /\ UNCHANGED top_k

NextRefine == Do_refine_matches \/ Return

SpecRefine == InitDefault /\ [][NextRefine]_vars

RefineReturned == pc = "refine_matches" /\ ~ret.err

\* the logit levels of coarse correspondence p of the call
LevelsOf(p) ==
    Logits(arg.fine_matcher[<<<<0, arg.idx0_b[p][1], arg.idx0_b[p][2]>>,
                              <<1, arg.idx1_b[p][1], arg.idx1_b[p][2]>>>>])

\* the largest softmax probability of correspondence p, the largest weight
\* over the sum of the weights, exceeds fine_conf
Confident(p) ==
    LET w == Tensor([c \in 0..63 |-> 2 ^ LevelsOf(p)[c]], 64)
    IN  SetMax({w[c] : c \in 0..63}) * arg.fine_conf[2]
            > arg.fine_conf[1] * SumRange(w, 0, 63)

\* the number of correspondences among the first p that are in the set
KeptUpTo(kept, p) == Cardinality(kept \cap 1..p)

\* C7: refine_matches emits a match for exactly the coarse correspondences
\* whose fine confidence is strictly greater than fine_conf, in their
\* order, each with the batch index of its correspondence and with
\* (x1, y1) the right keypoint; uniform logits with threshold 0.25 give no
\* refined match.
C7_RefinementGating ==
    RefineReturned =>
        LET n == Len(arg.idx0_b)
            kept == {p \in 1..n : Confident(p)}
        IN  /\ Len(ret.match_mkpts) = Cardinality(kept)
            /\ Len(ret.batch_index) = Cardinality(kept)
            /\ \A p \in kept :
                  /\ ret.batch_index[KeptUpTo(kept, p)] = arg.idx0_b[p][1]
                  /\ ret.match_mkpts[KeptUpTo(kept, p)][3]
                        = Dense(1, arg.B).keypoints[arg.idx1_b[p][1]][arg.idx1_b[p][2]][1]
                  /\ ret.match_mkpts[KeptUpTo(kept, p)][4]
                        = Dense(1, arg.B).keypoints[arg.idx1_b[p][1]][arg.idx1_b[p][2]][2]
            /\ ((\A pr \in DOMAIN arg.fine_matcher : arg.fine_matcher[pr] = "uniform")
                   /\ arg.fine_conf = <<1, 4>>) => ret.match_mkpts = <<>>

\* threshold 0.25 and three correspondences over two images: the first has
\* uniform logits, the second a largest probability of exactly 0.25, the
\* third, of the second image, a peak; only the third is emitted
C7_Witness ==
    /\ RefineReturned
    /\ arg.fine_conf = <<1, 4>>
    /\ Len(arg.idx0_b) = 3
    /\ LevelsOf(1) = Logits("uniform")
    /\ LevelsOf(2) = Logits("quarter")
    /\ LevelsOf(3) = Logits("peak")
    /\ arg.idx0_b[3][1] = 1
    /\ ret.batch_index = <<1>>
    /\ Len(ret.match_mkpts) = 1

====
